---- MODULE Spec2Model ----
(***************************************************************************)
(* css-resolver: test_css_resolver/test_resolver.py.                       *)
(*                                                                         *)
(* Texts are TLA+ strings, used as sequences of characters (Len, SubSeq,   *)
(* \o).  Every regular expression of the source is translated into an      *)
(* operator that scans the text the way Python's re module does: leftmost  *)
(* match, greedy and lazy quantifiers in their priority order,             *)
(* non-overlapping matches from left to right.                             *)
(***************************************************************************)
EXTENDS Naturals, Sequences, FiniteSets, TLC

VARIABLES
    log_method,   \* global log_method (0 none, 1 print, 2 file, 3 both)
    log_level,    \* global log_level (0 none, 1 normal, 2 verbose)
    filepath,     \* global filepath
    entry,        \* which function the caller invokes
    arg,          \* the argument of the call: a css text, or a path
    compress,     \* extract's second argument
    pc,           \* "start", "run", "done", "crashed"
    stack,        \* the activations of test_resolve_css, outermost first
    result,       \* what the outermost call returned
    logged,       \* the messages _log emitted
    last,         \* the loop iteration the resolvers performed last
    outcomes,     \* the kinds of events met so far
    maxdepth      \* the deepest nesting of test_resolve_css reached

vars == <<log_method, log_level, filepath, entry, arg, compress, pc, stack,
          result, logged, last, outcomes, maxdepth>>

----------------------------------------------------------------------------
(* Strings *)

Ch(s, i) == SubSeq(s, i, i)

\* s[i:].startswith(p), 1-based
StartsAt(s, i, p) ==
    /\ i >= 1
    /\ i + Len(p) - 1 <= Len(s)
    /\ SubSeq(s, i, i + Len(p) - 1) = p

\* str.startswith
startswith(s, p) == StartsAt(s, 1, p)

RECURSIVE Find(_, _, _)
\* the least j >= i where p occurs in s, 0 when there is none (str.find)
Find(s, p, i) ==
    IF i + Len(p) - 1 > Len(s) THEN 0
    ELSE IF StartsAt(s, i, p) THEN i
    ELSE Find(s, p, i + 1)

\* p in s
Contains(s, p) == Find(s, p, 1) # 0

RECURSIVE Interleave(_, _, _)
Interleave(s, new, i) ==
    IF i > Len(s) THEN new
    ELSE new \o Ch(s, i) \o Interleave(s, new, i + 1)

RECURSIVE ReplaceFrom(_, _, _, _)
ReplaceFrom(s, old, new, i) ==
    LET j == Find(s, old, i)
    IN  IF j = 0 THEN SubSeq(s, i, Len(s))
        ELSE SubSeq(s, i, j - 1) \o new \o ReplaceFrom(s, old, new, j + Len(old))

\* str.replace(old, new): every non-overlapping occurrence, left to right
str_replace(s, old, new) ==
    IF old = "" THEN Interleave(s, new, 1) ELSE ReplaceFrom(s, old, new, 1)

\* \s of the re module, over the characters a TLA+ string can hold
Whitespace == {" ", "\t", "\n", "\r", "\f"}

Quotes == {"'", "\""}

RECURSIVE SkipSpace(_, _)
\* the index after the whitespace run that starts at i
SkipSpace(s, i) ==
    IF i <= Len(s) /\ Ch(s, i) \in Whitespace THEN SkipSpace(s, i + 1) ELSE i

----------------------------------------------------------------------------
(* test_minify_css *)

RECURSIVE SkipNonStar(_, _)
\* [^*]* from i
SkipNonStar(s, i) ==
    IF i <= Len(s) /\ Ch(s, i) # "*" THEN SkipNonStar(s, i + 1) ELSE i

RECURSIVE SkipStars(_, _)
\* \*+ from i (i itself when there is no star)
SkipStars(s, i) ==
    IF i <= Len(s) /\ Ch(s, i) = "*" THEN SkipStars(s, i + 1) ELSE i

RECURSIVE CommentTail(_, _)
\* \*+(?:[^*/][^*]*\*+)*/ from i: the index after the match, 0 for no match
CommentTail(s, i) ==
    LET j == SkipStars(s, i)
    IN  IF j = i \/ j > Len(s) THEN 0
        ELSE IF Ch(s, j) = "/" THEN j + 1
        ELSE CommentTail(s, SkipNonStar(s, j + 1))

\* /\*[^*]*\*+(?:[^*/][^*]*\*+)*/ at i: the index after the match, 0 for none
CommentEnd(s, i) ==
    IF StartsAt(s, i, "/*") THEN CommentTail(s, SkipNonStar(s, i + 2)) ELSE 0

RECURSIVE StripComments(_, _)
\* re.sub(comment, '', css)
StripComments(s, i) ==
    IF i > Len(s) THEN ""
    ELSE LET e == CommentEnd(s, i)
         IN  IF e # 0 THEN StripComments(s, e)
             ELSE Ch(s, i) \o StripComments(s, i + 1)

RECURSIVE CollapseSpace(_, _)
\* re.sub(r'\s+', ' ', css)
CollapseSpace(s, i) ==
    IF i > Len(s) THEN ""
    ELSE IF Ch(s, i) \in Whitespace THEN " " \o CollapseSpace(s, SkipSpace(s, i))
    ELSE Ch(s, i) \o CollapseSpace(s, i + 1)

RECURSIVE LStrip(_)
LStrip(s) ==
    IF Len(s) > 0 /\ Ch(s, 1) \in Whitespace THEN LStrip(SubSeq(s, 2, Len(s))) ELSE s

RECURSIVE RStrip(_)
RStrip(s) ==
    IF Len(s) > 0 /\ Ch(s, Len(s)) \in Whitespace
    THEN RStrip(SubSeq(s, 1, Len(s) - 1)) ELSE s

\* str.strip()
strip(s) == RStrip(LStrip(s))

test_minify_css(css) == strip(CollapseSpace(StripComments(css, 1), 1))

----------------------------------------------------------------------------
(* test_import_extractor, test_asset_extractor *)

RECURSIVE LazyUntil(_, _, _, _)
\* (.*?) from i, followed by ['"]? then the optional `opt` then `close`:
\* the least e >= i where that tail matches, . matching no newline.
\* <<e, index after the tail>>, or <<0, 0>>.
LazyUntil(s, i, opt, close) ==
    LET q == IF i <= Len(s) /\ Ch(s, i) \in Quotes THEN i + 1 ELSE i
        p == IF opt # "" /\ StartsAt(s, q, opt) THEN q + Len(opt) ELSE q
    IN  IF StartsAt(s, p, close) THEN <<i, p + Len(close)>>
        ELSE IF i > Len(s) \/ Ch(s, i) = "\n" THEN <<0, 0>>
        ELSE LazyUntil(s, i + 1, opt, close)

\* @import\s+(url\()?['"]?(.*?)['"]?\)?; at i
ImportAt(s, i) ==
    LET w == i + 7
        k == SkipSpace(s, w)
        u == IF StartsAt(s, k, "url(") THEN k + 4 ELSE k
        b == IF u <= Len(s) /\ Ch(s, u) \in Quotes THEN u + 1 ELSE u
        m == LazyUntil(s, b, ")", ";")
    IN  IF StartsAt(s, i, "@import") /\ k > w /\ m[2] # 0
        THEN [ok |-> TRUE, url |-> SubSeq(s, b, m[1] - 1), end |-> m[2],
              stmt |-> SubSeq(s, i, m[2] - 1)]
        ELSE [ok |-> FALSE, url |-> "", end |-> 0, stmt |-> ""]

RECURSIVE ImportsFrom(_, _)
\* the matches of the import pattern, left to right, non-overlapping
ImportsFrom(s, i) ==
    LET j == Find(s, "@import", i)
    IN  IF j = 0 THEN <<>>
        ELSE LET m == ImportAt(s, j)
             IN  IF m.ok THEN <<m>> \o ImportsFrom(s, m.end)
                 ELSE ImportsFrom(s, j + 1)

test_import_extractor(css) ==
    LET ms == ImportsFrom(css, 1) IN [n \in 1..Len(ms) |-> ms[n].url]

\* url\(['"]?(.*?)['"]?\) at i
AssetAt(s, i) ==
    LET u == i + 4
        b == IF u <= Len(s) /\ Ch(s, u) \in Quotes THEN u + 1 ELSE u
        m == LazyUntil(s, b, "", ")")
    IN  IF StartsAt(s, i, "url(") /\ m[2] # 0
        THEN [ok |-> TRUE, url |-> SubSeq(s, b, m[1] - 1), end |-> m[2]]
        ELSE [ok |-> FALSE, url |-> "", end |-> 0]

RECURSIVE AssetsFrom(_, _)
AssetsFrom(s, i) ==
    LET j == Find(s, "url(", i)
    IN  IF j = 0 THEN <<>>
        ELSE LET m == AssetAt(s, j)
             IN  IF m.ok THEN <<m.url>> \o AssetsFrom(s, m.end)
                 ELSE AssetsFrom(s, j + 1)

test_asset_extractor(css) == AssetsFrom(css, 1)

----------------------------------------------------------------------------
(* Bytes, text and base64 *)

\* the characters with codes 32..95 and 97..126, in order (a TLA+ string
\* cannot hold the grave accent, code 96)
PrintableLow == " !\"#$%&'()*+,-./0123456789:;<=>?@ABCDEFGHIJKLMNOPQRSTUVWXYZ[\\]^_"
PrintableHigh == "abcdefghijklmnopqrstuvwxyz{|}~"

\* chr(), for the characters a TLA+ string can hold; "?" stands for any other
\* (a control character, or U+FFFD from a byte that is not text)
CharOf(code) ==
    IF code >= 32 /\ code <= 95 THEN Ch(PrintableLow, code - 31)
    ELSE IF code >= 97 /\ code <= 126 THEN Ch(PrintableHigh, code - 96)
    ELSE IF code = 9 THEN "\t"
    ELSE IF code = 10 THEN "\n"
    ELSE IF code = 12 THEN "\f"
    ELSE IF code = 13 THEN "\r"
    ELSE "?"

\* ord()
CodeOf(c) ==
    IF c = "\t" THEN 9
    ELSE IF c = "\n" THEN 10
    ELSE IF c = "\f" THEN 12
    ELSE IF c = "\r" THEN 13
    ELSE IF Contains(PrintableLow, c) THEN Find(PrintableLow, c, 1) + 31
    ELSE Find(PrintableHigh, c, 1) + 96

\* str.encode: the bytes of a text
Utf8(t) == [n \in 1..Len(t) |-> CodeOf(Ch(t, n))]

RECURSIVE DecodeFrom(_, _)
DecodeFrom(bytes, i) ==
    IF i > Len(bytes) THEN "" ELSE CharOf(bytes[i]) \o DecodeFrom(bytes, i + 1)

\* response.text: the body decoded, undecodable bytes replaced
Decode(bytes) == DecodeFrom(bytes, 1)

B64Alphabet == "ABCDEFGHIJKLMNOPQRSTUVWXYZabcdefghijklmnopqrstuvwxyz0123456789+/"

B64Char(n) == Ch(B64Alphabet, n + 1)

RECURSIVE B64From(_, _)
B64From(bytes, i) ==
    LET n  == Len(bytes) - i + 1
        b1 == bytes[i]
        b2 == IF n >= 2 THEN bytes[i + 1] ELSE 0
        b3 == IF n >= 3 THEN bytes[i + 2] ELSE 0
    IN  IF n <= 0 THEN ""
        ELSE B64Char(b1 \div 4)
             \o B64Char((b1 % 4) * 16 + b2 \div 16)
             \o (IF n >= 2 THEN B64Char((b2 % 16) * 4 + b3 \div 64) ELSE "=")
             \o (IF n >= 3 THEN B64Char(b3 % 64) ELSE "=")
             \o B64From(bytes, i + 3)

\* base64.b64encode(content).decode('utf-8')
b64encode(bytes) == B64From(bytes, 1)

----------------------------------------------------------------------------
(* The replacement of an import statement: re.sub with a string template *)

Letters == "abcdefghijklmnopqrstuvwxyzABCDEFGHIJKLMNOPQRSTUVWXYZ"
OctDigits == "01234567"
Digits == "0123456789"

IsOct(s, i) == i <= Len(s) /\ Contains(OctDigits, Ch(s, i))

RECURSIVE TemplateOk(_, _)
\* whether re accepts the template from i on: a backslash must start an
\* escape the template language knows; the pattern has no group to refer to
TemplateOk(r, i) ==
    IF i > Len(r) THEN TRUE
    ELSE IF Ch(r, i) # "\\" THEN TemplateOk(r, i + 1)
    ELSE IF i = Len(r) THEN FALSE
    ELSE LET c == Ch(r, i + 1)
         IN  IF c = "g" THEN StartsAt(r, i + 2, "<0>") /\ TemplateOk(r, i + 5)
             ELSE IF c = "0" THEN TemplateOk(r, i + 2)
             ELSE IF Contains(Digits, c)
             THEN IsOct(r, i + 1) /\ IsOct(r, i + 2) /\ IsOct(r, i + 3)
                  /\ Contains("0123", c) /\ TemplateOk(r, i + 4)
             ELSE IF Contains("abfnrtv\\", c) THEN TemplateOk(r, i + 2)
             ELSE IF Contains(Letters, c) THEN FALSE
             ELSE TemplateOk(r, i + 2)

RECURSIVE TemplateText(_, _, _)
\* the text an accepted template stands for, m being the text matched
TemplateText(r, i, m) ==
    IF i > Len(r) THEN ""
    ELSE IF Ch(r, i) # "\\" THEN Ch(r, i) \o TemplateText(r, i + 1, m)
    ELSE LET c == Ch(r, i + 1)
         IN  IF c = "g" THEN m \o TemplateText(r, i + 5, m)
             ELSE IF c = "0"
             THEN LET j == IF IsOct(r, i + 2) THEN (IF IsOct(r, i + 3) THEN i + 4 ELSE i + 3)
                           ELSE i + 2
                  IN  "?" \o TemplateText(r, j, m)
             ELSE IF Contains(Digits, c) THEN "?" \o TemplateText(r, i + 4, m)
             ELSE IF c = "n" THEN "\n" \o TemplateText(r, i + 2, m)
             ELSE IF c = "t" THEN "\t" \o TemplateText(r, i + 2, m)
             ELSE IF c = "r" THEN "\r" \o TemplateText(r, i + 2, m)
             ELSE IF c = "f" THEN "\f" \o TemplateText(r, i + 2, m)
             ELSE IF c = "\\" THEN "\\" \o TemplateText(r, i + 2, m)
             ELSE IF Contains("abv", c) THEN "?" \o TemplateText(r, i + 2, m)
             ELSE "\\" \o c \o TemplateText(r, i + 2, m)

\* ['"]?\)?; at e: the index after it, 0 for no match
StatementTail(s, e) ==
    LET q == IF e <= Len(s) /\ Ch(s, e) \in Quotes THEN e + 1 ELSE e
        p == IF StartsAt(s, q, ")") THEN q + 1 ELSE q
    IN  IF StartsAt(s, p, ";") THEN p + 1 ELSE 0

\* the literal url at b, then the tail
UrlThenTail(s, b, url) ==
    IF StartsAt(s, b, url) THEN StatementTail(s, b + Len(url)) ELSE 0

\* (?:url\()?['"]?<url>['"]?\)?; at k, the optional parts taken first
AfterSpace(s, k, url) ==
    LET hasU == StartsAt(s, k, "url(")
        u    == k + 4
        uq   == IF hasU /\ u <= Len(s) /\ Ch(s, u) \in Quotes
                THEN UrlThenTail(s, u + 1, url) ELSE 0
        un   == IF hasU THEN UrlThenTail(s, u, url) ELSE 0
        nq   == IF k <= Len(s) /\ Ch(s, k) \in Quotes
                THEN UrlThenTail(s, k + 1, url) ELSE 0
        nn   == UrlThenTail(s, k, url)
    IN  IF uq # 0 THEN uq ELSE IF un # 0 THEN un ELSE IF nq # 0 THEN nq ELSE nn

RECURSIVE SpaceBacktrack(_, _, _, _)
\* \s+ greedy: the longest run first, giving characters back down to one
SpaceBacktrack(s, w, k, url) ==
    IF k <= w THEN 0
    ELSE LET e == AfterSpace(s, k, url)
         IN  IF e # 0 THEN e ELSE SpaceBacktrack(s, w, k - 1, url)

\* @import\s+(?:url\()?['"]?<re.escape(url)>['"]?\)?; at i:
\* the index after the match, 0 for no match
ImportOfAt(s, i, url) ==
    IF StartsAt(s, i, "@import")
    THEN SpaceBacktrack(s, i + 7, SkipSpace(s, i + 7), url)
    ELSE 0

RECURSIVE SubFrom(_, _, _, _)
SubFrom(s, url, repl, i) ==
    LET j == Find(s, "@import", i)
        e == IF j = 0 THEN 0 ELSE ImportOfAt(s, j, url)
    IN  IF j = 0 THEN SubSeq(s, i, Len(s))
        ELSE IF e # 0
        THEN SubSeq(s, i, j - 1) \o TemplateText(repl, 1, SubSeq(s, j, e - 1))
             \o SubFrom(s, url, repl, e)
        ELSE SubSeq(s, i, j) \o SubFrom(s, url, repl, j + 1)

\* re.sub(fr'@import\s+(?:url\()?[\'"]?{re.escape(url)}[\'"]?\)?;', repl, s):
\* raised when re rejects the template, else the text
re_sub_import(url, repl, s) ==
    IF TemplateOk(repl, 1)
    THEN [raised |-> FALSE, text |-> SubFrom(s, url, repl, 1)]
    ELSE [raised |-> TRUE, text |-> s]

----------------------------------------------------------------------------
(* The network and the file system the program runs against *)

\* a stylesheet served with its content type
Css(t) == [headers |-> ("content-type" :> "text/css"), content |-> Utf8(t)]

\* what each URL serves when its server answers 200
Web ==
    "http://h/sub.css" :> Css(".x{background:url(http://h/i.png)}")
    @@ "http://h/i.png" :> [headers |-> ("content-type" :> "image/png"),
                            content |-> <<255>>]
    @@ "http://h/i" :> [headers |-> <<>>, content |-> <<1>>]
    @@ "http://h/data:x" :> [headers |-> ("content-type" :> "image/gif"),
                             content |-> <<71>>]
    @@ "http://h/e.css" :> Css(".e{content:\"\\e9\"}")
    @@ "http://h/n.css" :> Css(".n{content:\"\\n\"}")
    @@ "http://h/m.css" :> Css(".m{}")
    @@ "http://h/A.css" :> Css("a{} @import \"http://h/B.css\";")
    @@ "http://h/B.css" :> Css("b{} @import \"http://h/A.css\";")
    @@ "http://h/p.css" :> Css("p{}")

\* the local files
Files == "a.css" :> "a{}"

\* requests needs a scheme: requests.get raises MissingSchema without one
HasScheme(url) == startswith(url, "http://") \/ startswith(url, "https://")

\* what requests.get(url) can do: return a response with status 200, return
\* one with another status, or raise (no connection, no scheme, ...)
requests_get(url) ==
    IF ~HasScheme(url) THEN {"exc"}
    ELSE IF url \in DOMAIN Web THEN {"200", "404", "exc"}
    ELSE {"404", "exc"}

\* response.headers.get('content-type') inside an f-string: None prints "None"
content_type(response) ==
    IF "content-type" \in DOMAIN response.headers
    THEN response.headers["content-type"] ELSE "None"

\* f"data:{content_type};base64,{data}"
DataUri(response) ==
    "data:" \o content_type(response) \o ";base64," \o b64encode(response.content)

\* the nesting of test_resolve_css at which the interpreter's recursion limit
\* is reached: the next nested call raises RecursionError
MaxDepth == 3

----------------------------------------------------------------------------
(* _log *)

\* _log(content, prefix): the file takes the content, the console the
\* prefixed content
log_write(lg, content, prefix) ==
    [file    |-> IF log_method \in {2, 3} THEN Append(lg.file, content) ELSE lg.file,
     console |-> IF log_method \in {1, 3}
                 THEN Append(lg.console, <<prefix, content>>) ELSE lg.console]

\* a call of _log guarded by a condition on log_level
log_if(cond, lg, content, prefix) ==
    IF cond THEN log_write(lg, content, prefix) ELSE lg

Verbose == log_level = 2
Normal == log_level \in {1, 2}

----------------------------------------------------------------------------
(* State *)

NoLast == [fn |-> "none", outcome |-> "none", url |-> "", before |-> "",
           resolved |-> "", i |-> 0]

NoResult == [kind |-> "pending", value |-> ""]

Top == stack[Len(stack)]

SetTop(f) == [stack EXCEPT ![Len(stack)] = f]

\* the import statements of a text, as written
Statements(css) ==
    LET ms == ImportsFrom(css, 1) IN {ms[n].stmt : n \in 1..Len(ms)}

\* some occurrence of u in t shares a character with some occurrence of s
Overlaps(t, s, u) ==
    \E p \in 1..Len(t) : \E q \in 1..Len(t) :
        /\ StartsAt(t, p, s)
        /\ StartsAt(t, q, u)
        /\ q < p + Len(s)
        /\ p < q + Len(u)

\* the activation of test_resolve_css(css) on entry, the import urls extracted
resolve_css_frame(css) ==
    [css       |-> css,
     phase     |-> "imports",
     embedded  |-> css,
     urls      |-> test_import_extractor(css),
     i         |-> 1,
     seen      |-> <<>>,
     mid       |-> "",
     fetched   |-> {},
     all200    |-> TRUE,
     untouched |-> {}]

\* the loop moves on to the next url
next_url(f) == [f EXCEPT !.i = f.i + 1, !.seen = Append(f.seen, f.urls[f.i])]

----------------------------------------------------------------------------
(* test_import_resolver: one action per path through a loop iteration *)

InImports == pc = "run" /\ Top.phase = "imports" /\ Top.i <= Len(Top.urls)

InAssets == pc = "run" /\ Top.phase = "assets" /\ Top.i <= Len(Top.urls)

CurUrl == Top.urls[Top.i]

\* the response of a server that answers with this status
Response(url, status) ==
    IF status = "200"
    THEN [status_code |-> 200, headers |-> Web[url].headers, content |-> Web[url].content]
    ELSE [status_code |-> 404, headers |-> <<>>, content |-> <<>>]

Note(fn, outcome, resolved) ==
    [fn |-> fn, outcome |-> outcome, url |-> CurUrl, before |-> Top.embedded,
     resolved |-> resolved, i |-> Top.i]

\* the log line of the loop head (verbose only)
ImportHeadLog ==
    log_if(Verbose, logged, "Embedding content of " \o CurUrl \o "...", "verbose")

\* import_except with a clause that names the requests exceptions only:
\* any other exception leaves the resolver
import_except_narrow(f, lg, e) ==
    [frame  |-> next_url(f),
     log    |-> log_if(Normal /\ e = "RequestException", lg,
                       "Error embedding " \o f.urls[f.i], e),
     raised |-> TRUE,
     caught |-> e = "RequestException"]

\* the except clause of the import loop (except Exception: every exception e
\* is caught): log, and go on with the next url
import_except(f, lg, e) ==
    [frame  |-> next_url(f),
     log    |-> log_if(Normal, lg, "Error embedding " \o f.urls[f.i], e),
     raised |-> TRUE,
     caught |-> TRUE]

\* a url that begins with / is skipped, when log_level is 1 or 2
ImportSkipRoot ==
    /\ InImports
    /\ startswith(CurUrl, "/") /\ Normal
    /\ stack' = SetTop(next_url(Top))
    /\ logged' = log_write(ImportHeadLog, "Skipping broken import url: " \o CurUrl, "")
    /\ last' = Note("import", "skip_root", "")
    /\ outcomes' = outcomes \cup {"skip_root"}
    /\ UNCHANGED <<log_method, log_level, filepath, entry, arg, compress, pc,
                   result, maxdepth>>

ImportRequestLog ==
    log_if(Verbose, ImportHeadLog, "Requesting " \o CurUrl \o "...", "verbose")

\* requests.get raises: the except clause
ImportFetchRaises ==
    /\ InImports
    /\ ~(startswith(CurUrl, "/") /\ Normal)
    /\ "exc" \in requests_get(CurUrl)
    /\ LET h == import_except(Top, ImportRequestLog, "RequestException")
       IN  /\ stack' = IF h.caught THEN SetTop(h.frame) ELSE stack
           /\ pc' = IF h.caught THEN pc ELSE "crashed"
           /\ logged' = h.log
    /\ last' = Note("import", "exc", "")
    /\ outcomes' = outcomes \cup {"exc"}
    /\ UNCHANGED <<log_method, log_level, filepath, entry, arg, compress,
                   result, maxdepth>>

\* a status other than 200: nothing is embedded and nothing is logged
ImportFetchStatus ==
    /\ InImports
    /\ ~(startswith(CurUrl, "/") /\ Normal)
    /\ "404" \in requests_get(CurUrl)
    /\ Response(CurUrl, "404").status_code # 200
    /\ stack' = SetTop(next_url(Top))
    /\ logged' = ImportRequestLog
    /\ last' = Note("import", "status", "")
    /\ outcomes' = outcomes \cup {"status"}
    /\ UNCHANGED <<log_method, log_level, filepath, entry, arg, compress, pc,
                   result, maxdepth>>

ImportEmbedLog ==
    log_if(Verbose, ImportRequestLog, "Embedding " \o CurUrl \o "...", "verbose")

\* whether one more nested activation of test_resolve_css exceeds the
\* interpreter's recursion limit
recursion_limit_hit(depth) == depth >= MaxDepth

\* status 200: test_resolve_css(response.text) is called
ImportCall ==
    /\ InImports
    /\ ~(startswith(CurUrl, "/") /\ Normal)
    /\ "200" \in requests_get(CurUrl)
    /\ ~recursion_limit_hit(Len(stack))
    /\ stack' = Append(SetTop([Top EXCEPT !.phase = "call"]),
                       resolve_css_frame(Decode(Response(CurUrl, "200").content)))
    /\ logged' = ImportEmbedLog
    /\ maxdepth' = IF Len(stack) + 1 > maxdepth THEN Len(stack) + 1 ELSE maxdepth
    /\ last' = Note("import", "call", "")
    /\ UNCHANGED <<log_method, log_level, filepath, entry, arg, compress, pc,
                   result, outcomes>>

\* status 200, and the nested call raises RecursionError: the except clause
ImportRecursionError ==
    /\ InImports
    /\ ~(startswith(CurUrl, "/") /\ Normal)
    /\ "200" \in requests_get(CurUrl)
    /\ recursion_limit_hit(Len(stack))
    /\ LET h == import_except(Top, ImportEmbedLog, "RecursionError")
       IN  /\ stack' = IF h.caught THEN SetTop(h.frame) ELSE stack
           /\ pc' = IF h.caught THEN pc ELSE "crashed"
           /\ logged' = h.log
    /\ last' = Note("import", "recursion", "")
    /\ outcomes' = outcomes \cup {"recursion"}
    /\ UNCHANGED <<log_method, log_level, filepath, entry, arg, compress,
                   result, maxdepth>>

\* the nested test_resolve_css has finished its two passes
Returning == pc = "run" /\ Top.phase = "assets" /\ Top.i > Len(Top.urls)

\* lines 91-93 after the nested call returned `resolved`: the statement is
\* substituted and a line is logged, or re.sub raises and the except clause runs
import_embed(f, lg, resolved) ==
    LET url == f.urls[f.i]
        r   == re_sub_import(url, resolved, f.embedded)
    IN  IF r.raised THEN import_except(f, lg, "re.error")
        ELSE [frame  |-> next_url([f EXCEPT !.embedded = r.text]),
              log    |-> log_write(lg, "Failed to download: " \o url, "200"),
              raised |-> FALSE,
              caught |-> TRUE]

\* the nested call returns into the import loop of its caller
ReturnToCaller ==
    /\ Returning
    /\ Len(stack) > 1
    /\ LET caller == [stack[Len(stack) - 1] EXCEPT !.phase = "imports"]
           h      == import_embed(caller, logged, Top.embedded)
           what   == IF h.raised THEN "raised_sub" ELSE "embedded"
       IN  /\ stack' = IF h.caught
                         THEN Append(SubSeq(stack, 1, Len(stack) - 2), h.frame)
                         ELSE stack
           /\ pc' = IF h.caught THEN pc ELSE "crashed"
           /\ logged' = h.log
           /\ last' = [fn |-> "import", outcome |-> what,
                       url |-> caller.urls[caller.i], before |-> caller.embedded,
                       resolved |-> Top.embedded, i |-> caller.i]
           /\ outcomes' = outcomes \cup {what}
    /\ UNCHANGED <<log_method, log_level, filepath, entry, arg, compress,
                   result, maxdepth>>

----------------------------------------------------------------------------
(* test_resolve_css *)

\* the import pass is over: the assets of the text it left are extracted
StartAssets ==
    /\ pc = "run" /\ Top.phase = "imports" /\ Top.i > Len(Top.urls)
    /\ stack' = SetTop([Top EXCEPT !.phase = "assets",
                                   !.urls = test_asset_extractor(Top.embedded),
                                   !.i = 1,
                                   !.seen = <<>>,
                                   !.mid = Top.embedded,
                                   !.untouched = Statements(Top.embedded)])
    /\ logged' = log_if(Normal, logged, "Extracting URLs...", "")
    /\ last' = [NoLast EXCEPT !.fn = "resolve", !.outcome = "assets"]
    /\ UNCHANGED <<log_method, log_level, filepath, entry, arg, compress, pc,
                   result, outcomes, maxdepth>>

\* the outermost call returns
ReturnRoot ==
    /\ Returning
    /\ Len(stack) = 1
    /\ result' = [kind |-> "text", value |-> Top.embedded]
    /\ pc' = "done"
    /\ UNCHANGED <<log_method, log_level, filepath, entry, arg, compress, stack,
                   logged, last, outcomes, maxdepth>>

\* the caller invokes test_resolve_css(arg)
CallResolve ==
    /\ pc = "start" /\ entry = "resolve_css"
    /\ stack' = <<resolve_css_frame(arg)>>
    /\ pc' = "run"
    /\ maxdepth' = 1
    /\ UNCHANGED <<log_method, log_level, filepath, entry, arg, compress,
                   result, logged, last, outcomes>>

----------------------------------------------------------------------------
(* test_asset_resolver *)

\* line 108: the url counts as a data url
is_data_url(url) == Contains(url, "data:")

\* a data url is skipped
AssetSkipData ==
    /\ InAssets
    /\ is_data_url(CurUrl)
    /\ stack' = SetTop(next_url(Top))
    /\ logged' = log_if(Verbose, logged, "Skipping data url...", "verbose")
    /\ last' = Note("asset", "skip_data", "")
    /\ outcomes' = outcomes \cup {"skip_data"}
    /\ UNCHANGED <<log_method, log_level, filepath, entry, arg, compress, pc,
                   result, maxdepth>>

\* a url that begins with / is skipped, when log_level is 1 or 2
AssetSkipRoot ==
    /\ InAssets
    /\ ~is_data_url(CurUrl)
    /\ startswith(CurUrl, "/") /\ Normal
    /\ stack' = SetTop(next_url(Top))
    /\ logged' = log_write(logged, "Skipping broken asset url: " \o CurUrl, "")
    /\ last' = Note("asset", "skip_root", "")
    /\ outcomes' = outcomes \cup {"skip_root"}
    /\ UNCHANGED <<log_method, log_level, filepath, entry, arg, compress, pc,
                   result, maxdepth>>

AssetRequestLog ==
    log_if(Verbose, logged, "Requesting " \o CurUrl \o "...", "verbose")

\* asset_except that drops the reference it could not fetch
asset_except_strip(f, lg, e) ==
    [frame  |-> next_url([f EXCEPT !.embedded = str_replace(f.embedded, f.urls[f.i], "")]),
     log    |-> log_if(Normal, lg, "Error embedding " \o f.urls[f.i], e),
     caught |-> TRUE]

\* the except clause of the asset loop (except Exception): log, and go on
asset_except(f, lg, e) ==
    [frame  |-> next_url(f),
     log    |-> log_if(Normal, lg, "Error embedding " \o f.urls[f.i], e),
     caught |-> TRUE]

\* requests.get raises: the except clause
AssetFetchRaises ==
    /\ InAssets
    /\ ~is_data_url(CurUrl)
    /\ ~(startswith(CurUrl, "/") /\ Normal)
    /\ "exc" \in requests_get(CurUrl)
    /\ LET f == [Top EXCEPT !.fetched = Top.fetched \cup {CurUrl}, !.all200 = FALSE]
           h == asset_except(f, AssetRequestLog, "RequestException")
       IN  /\ stack' = IF h.caught THEN SetTop(h.frame) ELSE stack
           /\ pc' = IF h.caught THEN pc ELSE "crashed"
           /\ logged' = h.log
    /\ last' = Note("asset", "exc", "")
    /\ outcomes' = outcomes \cup {"exc"}
    /\ UNCHANGED <<log_method, log_level, filepath, entry, arg, compress,
                   result, maxdepth>>

\* asset_embed without the test of the status code
asset_embed_unchecked(embedded, url, response) ==
    str_replace(embedded, url, DataUri(response))

\* lines 121-127: the text after the iteration that got this response
asset_embed(embedded, url, response) ==
    IF response.status_code = 200
    THEN str_replace(embedded, url, DataUri(response))
    ELSE embedded

\* lines 122-123 and 128-129: the log line of the iteration
asset_log(lg, url, response) ==
    IF response.status_code = 200
    THEN log_if(Verbose, lg, "Embedding " \o url \o "...", "verbose")
    ELSE log_if(Normal, lg, "Failed to download: " \o url, "404")

\* requests.get returns a response
AssetResponse ==
    /\ InAssets
    /\ ~is_data_url(CurUrl)
    /\ ~(startswith(CurUrl, "/") /\ Normal)
    /\ \E status \in requests_get(CurUrl) \ {"exc"} :
         LET response == Response(CurUrl, status)
             ok       == response.status_code = 200
             what     == IF ok THEN "embedded" ELSE "status"
         IN  /\ stack' = SetTop(next_url(
                   [Top EXCEPT !.embedded = asset_embed(Top.embedded, CurUrl, response),
                               !.fetched = Top.fetched \cup {CurUrl},
                               !.all200 = Top.all200 /\ ok,
                               !.untouched =
                                   IF ok THEN {st \in Top.untouched :
                                                 ~Overlaps(Top.embedded, st, CurUrl)}
                                   ELSE Top.untouched]))
             /\ logged' = asset_log(AssetRequestLog, CurUrl, response)
             /\ last' = Note("asset", what, "")
             /\ outcomes' = outcomes \cup {what}
    /\ UNCHANGED <<log_method, log_level, filepath, entry, arg, compress, pc,
                   result, maxdepth>>

----------------------------------------------------------------------------
(* test_extract *)

\* path.startswith('http') and '://' in path
is_http_path(path) == startswith(path, "http") /\ Contains(path, "://")

\* The names test_extract calls, resolve_css and minify_css, are not defined
\* in the module (its functions are test_resolve_css and test_minify_css):
\* the call at line 168 raises NameError.
resolve_css_defined == FALSE

\* test_extract(arg, compress), the document loaded from the global filepath
Extract ==
    /\ pc = "start" /\ entry = "extract"
    /\ \/ /\ is_http_path(arg)
          /\ \E o \in requests_get(filepath) :
               /\ result' = [kind |-> "raised",
                             value |-> IF o = "exc" THEN "RequestException"
                                       ELSE "NameError"]
               /\ outcomes' = outcomes \cup {"get:" \o filepath}
          /\ logged' = log_if(Normal, logged, "Downloading css file: " \o arg, "")
          /\ pc' = "crashed"
       \/ /\ ~is_http_path(arg)
          /\ filepath \notin DOMAIN Files
          /\ result' = [kind |-> "None", value |-> ""]
          /\ logged' = log_write(logged, "The path " \o filepath
                                          \o " does not exist. Skipping...", "")
          /\ pc' = "done"
          /\ UNCHANGED outcomes
       \/ /\ ~is_http_path(arg)
          /\ filepath \in DOMAIN Files
          /\ ~resolve_css_defined
          /\ result' = [kind |-> "raised", value |-> "NameError"]
          /\ outcomes' = outcomes \cup {"open:" \o filepath}
          /\ pc' = "crashed"
          /\ UNCHANGED logged
    /\ UNCHANGED <<log_method, log_level, filepath, entry, arg, compress, stack,
                   last, maxdepth>>

----------------------------------------------------------------------------
(* The calls the model explores *)

Roots ==
    { "@import url(\"http://h/sub.css\");",
      "@import 'http://h/sub.css'; @import url(http://h/m.css);",
      "@import \"http://h/e.css\";",
      "@import \"http://h/n.css\";",
      "@import url(http://h/e.css);",
      "@import url(\"http://h/m.css\") screen;",
      ".a{b:url(http://h/i)} .b{b:url('http://h/i.png')}",
      ".a{b:url(http://h/data:x)} .c{b:url(data:image/gif;base64,Rw==)}",
      "@import \"/l.css\"; .a{b:url(http://h/i.png)} .r{b:url(/r.png)}",
      "@import \"/p?u=http://h/i.png\"; .a{b:url(http://h/i.png)}",
      "a{} @import \"http://h/B.css\";" }

Paths == {"a.css", "missing.css", "http://h/p.css"}

FilePaths == {"", "a.css", "http://h/p.css"}

Init ==
    /\ log_method \in 0..3
    /\ log_level \in 0..2
    /\ entry \in {"resolve_css", "extract"}
    /\ arg \in IF entry = "resolve_css" THEN Roots ELSE Paths
    /\ filepath \in IF entry = "resolve_css" THEN {""} ELSE FilePaths
    /\ compress \in IF entry = "resolve_css" THEN {FALSE} ELSE BOOLEAN
    /\ pc = "start"
    /\ stack = <<>>
    /\ result = NoResult
    /\ logged = [file |-> <<>>, console |-> <<>>]
    /\ last = NoLast
    /\ outcomes = {}
    /\ maxdepth = 0

Next ==
    \/ CallResolve
    \/ ImportSkipRoot
    \/ ImportFetchRaises
    \/ ImportFetchStatus
    \/ ImportCall
    \/ ImportRecursionError
    \/ ReturnToCaller
    \/ StartAssets
    \/ AssetSkipData
    \/ AssetSkipRoot
    \/ AssetFetchRaises
    \/ AssetResponse
    \/ ReturnRoot
    \/ Extract

Spec == Init /\ [][Next]_vars

----------------------------------------------------------------------------
(* test_minify_css applied to every short text, once and again *)

\* the longest text minified
MinifyMaxLen == 8

MinifyAlphabet == {"/", "*", " ", "a"}

RECURSIVE TextsUpTo(_)
TextsUpTo(n) ==
    IF n = 0 THEN {""}
    ELSE LET shorter == TextsUpTo(n - 1)
         IN  shorter \cup {t \o c : t \in {x \in shorter : Len(x) = n - 1},
                                   c \in MinifyAlphabet}

InitMinify ==
    /\ log_method = 0
    /\ log_level = 0
    /\ entry = "minify_css"
    /\ arg \in TextsUpTo(MinifyMaxLen)
    /\ filepath = ""
    /\ compress = TRUE
    /\ pc = "start"
    /\ stack = <<>>
    /\ result = NoResult
    /\ logged = [file |-> <<>>, console |-> <<>>]
    /\ last = NoLast
    /\ outcomes = {}
    /\ maxdepth = 0

\* the caller invokes test_minify_css(arg)
MinifyOnce ==
    /\ pc = "start" /\ entry = "minify_css"
    /\ result' = [kind |-> "text", value |-> test_minify_css(arg)]
    /\ pc' = "once"
    /\ UNCHANGED <<log_method, log_level, filepath, entry, arg, compress, stack,
                   logged, last, outcomes, maxdepth>>

\* the caller invokes test_minify_css on what the first call returned
MinifyAgain ==
    /\ pc = "once" /\ entry = "minify_css"
    /\ result' = [kind |-> "text", value |-> test_minify_css(result.value)]
    /\ last' = [NoLast EXCEPT !.fn = "minify", !.before = result.value]
    /\ pc' = "twice"
    /\ UNCHANGED <<log_method, log_level, filepath, entry, arg, compress, stack,
                   logged, outcomes, maxdepth>>

NextMinify == MinifyOnce \/ MinifyAgain

SpecMinify == InitMinify /\ [][NextMinify]_vars

----------------------------------------------------------------------------
(* Claims *)

FetchFailures == {"exc", "status"}

\* the activation on top of the stack has finished both passes
Finished == pc \in {"run", "done"} /\ Len(stack) > 0
            /\ Top.phase = "assets" /\ Top.i > Len(Top.urls)

\* C1: when every url is absolute and every fetch returns 200, the text
\* test_resolve_css returns holds no @import statement and no asset url
\* other than data: urls.
C1_FullyResolved ==
    (/\ pc = "done" /\ entry = "resolve_css"
     /\ outcomes \cap (FetchFailures \cup {"skip_root", "recursion"}) = {})
    => /\ test_import_extractor(result.value) = <<>>
       /\ \A n \in 1..Len(test_asset_extractor(result.value)) :
            startswith(test_asset_extractor(result.value)[n], "data:")

\* C2: an iteration of either resolver that fails (a status other than 200, or
\* an exception while fetching or processing) leaves the text as it was, lets
\* no exception escape, and the loop goes on with the next url, in order.
C2_FailureIsLocal ==
    /\ entry = "resolve_css" => pc # "crashed"
    /\ last.outcome \in FetchFailures \cup {"raised_sub", "recursion"}
       => /\ Top.embedded = last.before
          /\ Top.i = last.i + 1
    /\ \A k \in 1..Len(stack) :
         stack[k].seen = SubSeq(stack[k].urls, 1, stack[k].i - 1)

\* a later url of the same loop was embedded after an earlier one had failed
C2_Witness ==
    /\ pc = "run"
    /\ last.fn = "asset" /\ last.outcome = "embedded" /\ last.i > 1
    /\ ~Top.all200
    /\ Top.embedded # last.before

RECURSIVE SubLiteralFrom(_, _, _, _)
\* the statements naming url replaced by the text repl as it stands
SubLiteralFrom(s, url, repl, i) ==
    LET j == Find(s, "@import", i)
        e == IF j = 0 THEN 0 ELSE ImportOfAt(s, j, url)
    IN  IF j = 0 THEN SubSeq(s, i, Len(s))
        ELSE IF e # 0 THEN SubSeq(s, i, j - 1) \o repl \o SubLiteralFrom(s, url, repl, e)
        ELSE SubSeq(s, i, j) \o SubLiteralFrom(s, url, repl, j + 1)

\* C3: after an import fetched with status 200, every statement naming the
\* url is replaced by exactly what test_resolve_css made of the body, and no
\* statement naming the url is left.
C3_ImportReplaced ==
    (last.fn = "import" /\ last.outcome \in {"embedded", "raised_sub"})
    => /\ Top.embedded = SubLiteralFrom(last.before, last.url, last.resolved, 1)
       /\ \A j \in 1..Len(Top.embedded) : ImportOfAt(Top.embedded, j, last.url) = 0

\* what C4 expects in place of a reference to u
Inlined(u) ==
    IF startswith(u, "data:") \/ startswith(u, "/") \/ u \notin DOMAIN Web THEN u
    ELSE DataUri(Response(u, "200"))

\* C4: when every fetch returned 200, each reference that named a url which is
\* neither a data url nor root-relative holds exactly the data URI of that
\* url's response, whatever the other urls and their order.
C4_EachReferenceInlined ==
    (Finished /\ Top.all200)
    => LET before == test_asset_extractor(Top.mid)
           after  == test_asset_extractor(Top.embedded)
       IN  after = [n \in 1..Len(before) |-> Inlined(before[n])]

\* the import statements of css whose url begins with /
RootRelativeStatements(css) ==
    LET ms == ImportsFrom(css, 1)
    IN  {ms[n].stmt : n \in {k \in 1..Len(ms) : startswith(ms[k].url, "/")}}

\* C5: for every log level and log method, an @import statement whose url
\* begins with / appears unchanged in the text test_resolve_css returns.
C5_RootRelativeUntouched ==
    (pc = "done" /\ entry = "resolve_css")
    => \A st \in RootRelativeStatements(arg) : Contains(result.value, st)

\* a document with nothing to resolve: test_resolve_css returns it as it is
Plain(css) == test_import_extractor(css) = <<>> /\ test_asset_extractor(css) = <<>>

\* C6: test_extract loads the document its path argument designates and
\* returns it resolved, minified when compress is true; when the local file
\* at path does not exist it returns no value and fetches nothing.
C6_ExtractLoadsPath ==
    (entry = "extract" /\ pc # "start" /\ ~is_http_path(arg))
    => IF arg \in DOMAIN Files
       THEN Plain(Files[arg])
            => result = [kind |-> "text",
                         value |-> IF compress THEN test_minify_css(Files[arg])
                                   ELSE Files[arg]]
       ELSE result.kind = "None" /\ outcomes = {}

\* C7: test_minify_css is idempotent.
C7_MinifyIdempotent ==
    pc = "twice" => result.value = last.before

\* C8: the asset resolver skips a url as a data url exactly when the url
\* begins with data:, and fetches every url that begins with neither data:
\* nor /.
C8_SkipsOnlyDataPrefix ==
    Finished
    => \A n \in 1..Len(Top.urls) :
         LET u == Top.urls[n]
         IN  /\ startswith(u, "data:") => u \notin Top.fetched
             /\ (~startswith(u, "data:") /\ ~startswith(u, "/")) => u \in Top.fetched

\* the stylesheet A, which imports B, which imports A
CyclicRoot == "a{} @import \"http://h/B.css\";"

CyclicRun ==
    /\ entry = "resolve_css" /\ arg = CyclicRoot
    /\ outcomes \cap FetchFailures = {}

\* C9 as claimed: with a cyclic import and every fetch returning 200,
\* test_resolve_css never returns.
C9_NeverReturns == CyclicRun => pc # "done"

\* C9 amended: nothing in the code guards against the cycle, each level
\* fetches and nests again until the recursion limit is reached; the
\* RecursionError is caught by the import resolver's except clause, the
\* innermost @import is left as it is, and test_resolve_css returns.
C9_ReturnsAtRecursionLimit ==
    /\ Len(stack) <= MaxDepth
    /\ CyclicRun => pc # "crashed"
    /\ (CyclicRun /\ pc = "done")
       => /\ maxdepth = MaxDepth
          /\ "recursion" \in outcomes
          /\ test_import_extractor(result.value) # <<>>

C9_Witness == CyclicRun /\ pc = "done" /\ "recursion" \in outcomes

\* C10 as claimed: every @import statement the import pass left appears
\* unchanged in the text test_resolve_css returns.
C10_StatementsKept ==
    Finished => \A st \in Statements(Top.mid) : Contains(Top.embedded, st)

\* C10 amended: the asset pass changes a statement the import pass left only
\* where an occurrence of a url it fetched with status 200 overlaps the
\* statement; every other statement appears unchanged.
C10_UntouchedStatementsKept ==
    \A k \in 1..Len(stack) :
        stack[k].phase = "assets"
        => /\ stack[k].untouched \subseteq Statements(stack[k].mid)
           /\ \A st \in stack[k].untouched : Contains(stack[k].embedded, st)

\* an asset was inlined while a statement that it does not overlap was kept
C10_Witness ==
    /\ Finished
    /\ Top.untouched # {}
    /\ Top.embedded # Top.mid

====
